---- MODULE Spec2Model ----
(***************************************************************************)
(* A model of nginx-config's value scanner and serializer (src/value.rs)   *)
(* and of the `error_page` and `listen` directive rules (src/core.rs).     *)
(*                                                                         *)
(* Text is a sequence of one-character strings.  Rust byte offsets are     *)
(* kept 0-based as in the source: At(s, i) is s[i], Slice(s, a, b) is      *)
(* s[a..b].  Every character used here is one byte long.                   *)
(***************************************************************************)
EXTENDS Integers, Sequences, FiniteSets, TLC

VARIABLES
    pc,        \* position of the run
    tok,       \* value.rs: the token text handed to Value::parse
    parsed,    \* value.rs: result of Value::parse(tok)
    shown,     \* value.rs: text written by display() for parsed
    reparsed,  \* value.rs: result of Value::parse(shown)
    reshown,   \* value.rs: text written by display() for reparsed
    args,      \* core.rs: the argument tokens of an error_page directive
    page,      \* core.rs: result of the error_page rule
    addrTok,   \* core.rs: the address token of a listen directive
    addr,      \* core.rs: result of the address closure
    items,     \* core.rs: the ListenParts collected by many(choice(..))
    lst        \* core.rs: the Listen record built by the fold

vars == <<pc, tok, parsed, shown, reparsed, reshown,
          args, page, addrTok, addr, items, lst>>

\* ------------------------------------------------------------- bounds
MaxTokLen == 5
MaxArgs == 4
MaxOpts == 2
MaxPathLen == 2

\* ---------------------------------------------------------- characters
Lower == {"a","b","c","d","e","f","g","h","i","j","k","l","m",
          "n","o","p","q","r","s","t","u","v","w","x","y","z"}
Upper == {"A","B","C","D","E","F","G","H","I","J","K","L","M",
          "N","O","P","Q","R","S","T","U","V","W","X","Y","Z"}
Digits == {"0","1","2","3","4","5","6","7","8","9"}

BSlash == "\\"
DQuote == "\""
SQuote == "'"
Dollar == "$"

IsVarStart(c) == c \in Lower \cup Upper \cup {"_"}
IsVarChar(c) == c \in Lower \cup Upper \cup {"_"} \cup Digits
IsSpecial(c) == c \in {" ", ";", "\r", "\n", "\t"}

At(s, i) == s[i + 1]
Slice(s, a, b) == SubSeq(s, a + 1, b)
StartsWith(s, p) == Len(s) >= Len(p) /\ SubSeq(s, 1, Len(p)) = p

\* ------------------------------------------------------------- results
Literal(s) == [t |-> "Literal", s |-> s]
Variable(s) == [t |-> "Variable", s |-> s]
Ok(data) == [kind |-> "Ok", msg |-> "", data |-> data]
Err(msg) == [kind |-> "Err", msg |-> msg, data |-> <<>>]
PanicWith(msg) == [kind |-> "Panic", msg |-> msg, data |-> <<>>]
\* unimplemented!() on `${`.
Panic == PanicWith("not yet implemented")
None == [kind |-> "None", msg |-> "", data |-> <<>>]

BareDollar == "bare $ in expression"
BadVarStart == "variable name starts with bad char"
Premature == "quote closes prematurely"
Unclosed == "unclosed quote"

\* ------------------------------------------------------ Value::scan_raw
\* The inner `while let Some(&(_, c)) = chiter.peek()` loop: the offset of the
\* first character at or after j that is no name character, or the length.
RECURSIVE NameEnd(_, _)
NameEnd(value, j) ==
    IF j < Len(value) /\ IsVarChar(At(value, j))
    THEN NameEnd(value, j + 1)
    ELSE j

VariableItem(value, vstart, now) == Variable(Slice(value, vstart, now))

RawFlushAlways(buf, value, cur_slice, idx) ==
    Append(buf, Literal(Slice(value, cur_slice, idx)))

RawFlushLiteral(buf, value, cur_slice, idx) ==
    IF idx # cur_slice
    THEN Append(buf, Literal(Slice(value, cur_slice, idx)))
    ELSE buf

RawTailSkipsOne(buf, value, cur_slice) ==
    IF cur_slice # Len(value)
    THEN Append(buf, Literal(Slice(value, cur_slice + 1, Len(value))))
    ELSE buf

RawTail(buf, value, cur_slice) ==
    IF cur_slice # Len(value)
    THEN Append(buf, Literal(Slice(value, cur_slice, Len(value))))
    ELSE buf

RECURSIVE ScanRawLoop(_, _, _, _, _)
ScanRawLoop(value, idx, prev_char, cur_slice, buf) ==
    IF idx >= Len(value)
    THEN Ok(RawTail(buf, value, cur_slice))
    ELSE LET cur_char == At(value, idx) IN
         IF prev_char = BSlash
         THEN ScanRawLoop(value, idx + 1, " ", cur_slice, buf)
         ELSE IF cur_char = Dollar
         THEN LET vstart == idx + 1
                  buf1 == RawFlushLiteral(buf, value, cur_slice, idx)
              IN IF vstart >= Len(value)
                 THEN Err(BareDollar)
                 ELSE LET fchar == At(value, vstart) IN
                      IF fchar = "{"
                      THEN Panic
                      ELSE IF IsVarStart(fchar)
                      THEN LET now == NameEnd(value, vstart + 1) IN
                           ScanRawLoop(value, now, cur_char, now,
                               Append(buf1, VariableItem(value, vstart, now)))
                      ELSE Err(BadVarStart)
         ELSE ScanRawLoop(value, idx + 1, cur_char, cur_slice, buf)

scan_raw(value) == ScanRawLoop(value, 0, " ", 0, <<>>)

\* --------------------------------------------------- Value::scan_quoted
QuotedFlushLiteral(buf, cur_slice) ==
    IF Len(cur_slice) > 0 THEN Append(buf, Literal(cur_slice)) ELSE buf

\* The `_ if prev_char == '\\'` arm ends in `continue`, which skips the
\* `prev_char = cur_char` at the foot of the loop: prev_char keeps its value.
RECURSIVE ScanQuotedLoop(_, _, _, _, _, _)
ScanQuotedLoop(quote, value, idx, prev_char, cur_slice, buf) ==
    IF idx >= Len(value)
    THEN Err(Unclosed)
    ELSE LET cur_char == At(value, idx) IN
         IF prev_char = BSlash
         THEN ScanQuotedLoop(quote, value, idx + 1, prev_char,
                             Append(cur_slice, cur_char), buf)
         ELSE IF cur_char \in {DQuote, SQuote} /\ cur_char = quote
         THEN IF idx + 1 # Len(value)
              THEN Err(Premature)
              ELSE Ok(QuotedFlushLiteral(buf, cur_slice))
         ELSE IF cur_char = Dollar
         THEN LET vstart == idx + 1
                  buf1 == QuotedFlushLiteral(buf, cur_slice)
              IN IF vstart >= Len(value)
                 THEN Err(BareDollar)
                 ELSE LET fchar == At(value, vstart) IN
                      IF fchar = "{"
                      THEN Panic
                      ELSE IF IsVarStart(fchar)
                      THEN LET now == NameEnd(value, vstart + 1) IN
                           IF now >= Len(value)
                           THEN Err(Unclosed)
                           ELSE ScanQuotedLoop(quote, value, now, cur_char, <<>>,
                                    Append(buf1, VariableItem(value, vstart, now)))
                      ELSE Err(BadVarStart)
         ELSE ScanQuotedLoop(quote, value, idx + 1, cur_char,
                             Append(cur_slice, cur_char), buf)

\* chiter.next() skips the opening quote: the loop starts at offset 1.
scan_quoted(quote, value) == ScanQuotedLoop(quote, value, 1, " ", <<>>, <<>>)

\* --------------------------------------------------------- Value::parse
ValueParse(value) ==
    IF StartsWith(value, <<DQuote>>) THEN scan_quoted(DQuote, value)
    ELSE IF StartsWith(value, <<SQuote>>) THEN scan_quoted(SQuote, value)
    ELSE scan_raw(value)

\* ------------------------------------------- has_specials and display
has_specials(data) ==
    \E i \in 1..Len(data) :
        /\ data[i].t = "Literal"
        /\ \E k \in 1..Len(data[i].s) : IsSpecial(data[i].s[k])

RECURSIVE WriteItems(_)
WriteItems(data) ==
    IF data = <<>> THEN <<>>
    ELSE (IF Head(data).t = "Literal"
          THEN Head(data).s
          ELSE <<Dollar>> \o Head(data).s) \o WriteItems(Tail(data))

display(data) ==
    IF has_specials(data)
    THEN <<DQuote>> \o WriteItems(data) \o <<DQuote>>
    ELSE WriteItems(data)

\* ------------------------------------------------- the scanner's inputs
\* One character of each class the scanner tells apart: a letter, a digit,
\* the underscore, `$`, the backslash, both quotes, a special character and
\* the brace of the unimplemented `${` form.
Alphabet == {"a", "1", "_", Dollar, BSlash, DQuote, SQuote, " ", "{"}
Tokens == UNION {[1..n -> Alphabet] : n \in 0..MaxTokLen}

InitValue ==
    /\ pc = "tok"
    /\ tok \in Tokens
    /\ parsed = None /\ shown = <<>> /\ reparsed = None /\ reshown = <<>>
    /\ args = <<>> /\ page = None
    /\ addrTok = <<>> /\ addr = None /\ items = <<>> /\ lst = None

\* Value::parse on the token.
Parse ==
    /\ pc = "tok"
    /\ parsed' = ValueParse(tok)
    /\ pc' = "parsed"
    /\ UNCHANGED <<tok, shown, reparsed, reshown,
                   args, page, addrTok, addr, items, lst>>

\* Displayable::display on the Value just parsed.
Show ==
    /\ pc = "parsed"
    /\ parsed.kind = "Ok"
    /\ shown' = display(parsed.data)
    /\ pc' = "shown"
    /\ UNCHANGED <<tok, parsed, reparsed, reshown,
                   args, page, addrTok, addr, items, lst>>

\* Value::parse on the rendered text.
Reparse ==
    /\ pc = "shown"
    /\ reparsed' = ValueParse(shown)
    /\ pc' = "reparsed"
    /\ UNCHANGED <<tok, parsed, shown, reshown,
                   args, page, addrTok, addr, items, lst>>

\* Displayable::display on the re-parsed Value.
Reshow ==
    /\ pc = "reparsed"
    /\ reparsed.kind = "Ok"
    /\ reshown' = display(reparsed.data)
    /\ pc' = "reshown"
    /\ UNCHANGED <<tok, parsed, shown, reparsed,
                   args, page, addrTok, addr, items, lst>>

NextValue == Parse \/ Show \/ Reparse \/ Reshow

SpecValue == InitValue /\ [][NextValue]_vars

\* ===================================================== scanner properties
\* What the properties say about a token, stated without the scanner.
IsQuoted(t) == Len(t) > 0 /\ t[1] \in {DQuote, SQuote}

\* Position i (1-based) is escaped when an unescaped backslash precedes it.
RECURSIVE Escaped(_, _)
Escaped(t, i) == i > 1 /\ t[i - 1] = BSlash /\ ~Escaped(t, i - 1)

UnescapedAt(t, c) == {i \in 1..Len(t) : t[i] = c /\ ~Escaped(t, i)}
Dollars(t) == UnescapedAt(t, Dollar)
Closers(t) == {i \in UnescapedAt(t, t[1]) : i > 1}
Min(S) == CHOOSE x \in S : \A y \in S : x <= y

\* The end (1-based, inclusive) of the longest run of name characters that
\* starts at position j.
RECURSIVE RunEnd(_, _)
RunEnd(t, j) == IF j < Len(t) /\ IsVarChar(t[j + 1]) THEN RunEnd(t, j + 1) ELSE j

LiteralsOf(data) == {i \in 1..Len(data) : data[i].t = "Literal"}
VariablesOf(data) == {i \in 1..Len(data) : data[i].t = "Variable"}
NthVariable(data, n) ==
    CHOOSE i \in VariablesOf(data) :
        Cardinality({j \in VariablesOf(data) : j <= i}) = n
WellFormedName(s) ==
    /\ Len(s) > 0
    /\ IsVarStart(s[1])
    /\ \A k \in 1..Len(s) : IsVarChar(s[k])
NoEmptyLiteral(data) == \A i \in LiteralsOf(data) : Len(data[i].s) > 0
NoAdjacentLiterals(data) ==
    \A i \in 1..(Len(data) - 1) :
        ~(data[i].t = "Literal" /\ data[i + 1].t = "Literal")
HasSpecialChar(t) == \E k \in 1..Len(t) : IsSpecial(t[k])

\* C2: in quoted mode a backslash escapes only the character after it: a
\* token with an escape whose first unescaped matching quote is its last
\* character, and whose unescaped `$` each start a variable name, scans to
\* a Value that holds one Variable per unescaped `$`.
C2_EscapeCoversOneChar ==
    (/\ pc # "tok"
     /\ IsQuoted(tok)
     /\ UnescapedAt(tok, BSlash) # {}
     /\ Closers(tok) = {Len(tok)}
     /\ \A d \in Dollars(tok) : d < Len(tok) /\ IsVarStart(tok[d + 1]))
    => /\ parsed.kind = "Ok"
       /\ Cardinality(VariablesOf(parsed.data)) = Cardinality(Dollars(tok))

\* C4: a Value of literal parts only, none with a special character,
\* renders to a text that scans again and renders to the same text.
C4_RoundTrip ==
    (/\ pc \in {"reparsed", "reshown"}
     /\ VariablesOf(parsed.data) = {}
     /\ ~has_specials(parsed.data))
    => /\ reparsed.kind = "Ok"
       /\ pc = "reshown" => reshown = shown

\* C7: a Value returned by the scanner, in either mode, has no empty
\* Literal and no two adjacent Literals, and its parts are in source order:
\* written out in order they give the raw token, or the text between the
\* quotes of a quoted one.
C7_LiteralsCoalesced ==
    (pc # "tok" /\ parsed.kind = "Ok")
    => /\ NoEmptyLiteral(parsed.data)
       /\ NoAdjacentLiterals(parsed.data)
       /\ WriteItems(parsed.data) =
              IF IsQuoted(tok) THEN SubSeq(tok, 2, Len(tok) - 1) ELSE tok

C7_Witness ==
    /\ pc = "parsed"
    /\ parsed.kind = "Ok"
    /\ IsQuoted(tok)
    /\ LiteralsOf(parsed.data) # {}
    /\ VariablesOf(parsed.data) # {}

\* C8: for a quoted token whose `$` before the closing quote all start a
\* variable name: an unescaped matching quote before the last character
\* fails with "quote closes prematurely", no unescaped matching quote
\* fails with "unclosed quote", and a Value is returned only when the first
\* unescaped matching quote is the last character.
C8_QuoteClosing ==
    (/\ pc # "tok"
     /\ IsQuoted(tok)
     /\ LET limit == IF Closers(tok) = {} THEN Len(tok) + 1 ELSE Min(Closers(tok))
        IN \A d \in Dollars(tok) :
               d < limit => d < Len(tok) /\ IsVarStart(tok[d + 1]))
    => /\ (Closers(tok) # {} /\ Min(Closers(tok)) # Len(tok))
              => parsed = Err(Premature)
       /\ Closers(tok) = {} => parsed = Err(Unclosed)
       /\ parsed.kind = "Ok"
              => Closers(tok) # {} /\ Min(Closers(tok)) = Len(tok)

\* C9: in both modes, for every unescaped `$` that the scan gets to (the
\* `$` before it start a variable name, and in quoted mode no closing quote
\* comes before it): last character, the bare-`$` error; next character no
\* letter or underscore, no Value; otherwise the Variable emitted for it is
\* the longest run of name characters after it.  Every Variable name of a
\* returned Value is well formed.
C9_Variables ==
    (pc # "tok")
    => /\ \A d \in Dollars(tok) :
            (/\ \A e \in Dollars(tok) :
                    e < d => e < Len(tok) /\ IsVarStart(tok[e + 1])
             /\ IsQuoted(tok) => \A c \in Closers(tok) : c > d)
            => IF d = Len(tok) THEN parsed = Err(BareDollar)
               ELSE IF ~IsVarStart(tok[d + 1]) THEN parsed.kind # "Ok"
               ELSE parsed.kind = "Ok" =>
                    LET n == Cardinality({e \in Dollars(tok) : e <= d})
                    IN /\ Cardinality(VariablesOf(parsed.data)) >= n
                       /\ parsed.data[NthVariable(parsed.data, n)].s =
                              SubSeq(tok, d + 1, RunEnd(tok, d + 1))
       /\ parsed.kind = "Ok" =>
              \A i \in VariablesOf(parsed.data) : WellFormedName(parsed.data[i].s)

\* C10: raw-mode scanning loses no text: the parts of a successfully
\* scanned unquoted token, written out in order, are the token; and an
\* unquoted token with no special character renders to itself.
C10_RawLosesNothing ==
    (pc # "tok" /\ ~IsQuoted(tok) /\ parsed.kind = "Ok")
    => /\ WriteItems(parsed.data) = tok
       /\ (pc # "parsed" /\ ~HasSpecialChar(tok)) => shown = tok

C10_Witness ==
    /\ pc = "shown"
    /\ ~IsQuoted(tok)
    /\ parsed.kind = "Ok"
    /\ UnescapedAt(tok, BSlash) # {}
    /\ VariablesOf(parsed.data) # {}
    /\ LiteralsOf(parsed.data) # {}
    /\ ~HasSpecialChar(tok)
    /\ shown = tok

\* ============================================================ error_page
\* Decimal text to a number, as str::parse does: digits only, at least one.
DigitValue(c) ==
    CASE c = "0" -> 0 [] c = "1" -> 1 [] c = "2" -> 2 [] c = "3" -> 3
      [] c = "4" -> 4 [] c = "5" -> 5 [] c = "6" -> 6 [] c = "7" -> 7
      [] c = "8" -> 8 [] c = "9" -> 9

RECURSIVE DecValue(_)
DecValue(s) ==
    IF s = <<>> THEN 0
    ELSE 10 * DecValue(SubSeq(s, 1, Len(s) - 1)) + DigitValue(s[Len(s)])

IsDecimal(s) == Len(s) > 0 /\ \A k \in 1..Len(s) : s[k] \in Digits

RECURSIVE StripZeros(_)
StripZeros(s) == IF Len(s) > 1 /\ s[1] = "0" THEN StripZeros(Tail(s)) ELSE s

\* Numbers are kept below 10^9 (nine significant digits), which every
\* integer type of the source holds.
Small(s) == IsDecimal(s) /\ Len(StripZeros(s)) <= 9

\* The response-code classifier (grammar::Code::parse and Code::as_code):
\* a status code text is a redirect code, a normal code, or invalid.  A
\* text of more than nine significant digits is no code: it overflows u32
\* or is above every status code.
RedirectCodes == {301, 302, 303, 307, 308}
CodeParse(s) ==
    IF ~Small(s)
    THEN [kind |-> "Err", code |-> 0]
    ELSE LET n == DecValue(s) IN
         IF n \in RedirectCodes THEN [kind |-> "Redirect", code |-> n]
         ELSE IF n >= 200 /\ n <= 599 THEN [kind |-> "Normal", code |-> n]
         ELSE [kind |-> "Err", code |-> 0]

EmptyDirective == "error_page directive must not be empty"
EmptyCode == "empty error codes are not supported"
OnlyLast == "only last argument of error_codes can contain variables"
BadCode == "invalid response code"

\* fn lit: the text of a Value that is one Literal.
Lit(val) ==
    IF Len(val) = 0 THEN [ok |-> FALSE, msg |-> EmptyCode, s |-> <<>>]
    ELSE IF Len(val) > 1 THEN [ok |-> FALSE, msg |-> OnlyLast, s |-> <<>>]
    ELSE IF val[1].t = "Literal" THEN [ok |-> TRUE, msg |-> "", s |-> val[1].s]
    ELSE [ok |-> FALSE, msg |-> OnlyLast, s |-> <<>>]

\* The closure is_eq, where lit succeeds.
IsEq(val) == StartsWith(Lit(val).s, <<"=">>)

\* `let uri = v.pop().unwrap()`: the last argument and what is left.
PopUriFront(v) == [uri |-> v[1], rest |-> SubSeq(v, 2, Len(v))]

PopUri(v) == [uri |-> v[Len(v)], rest |-> SubSeq(v, 1, Len(v) - 1)]

\* The `let response_code = if ... else ...` of the closure: the response
\* code and the arguments left, or the error.
ResponseCode(v) ==
    IF Len(v) = 0
    THEN [ok |-> TRUE, msg |-> "", rc |-> [tag |-> "Target", code |-> 0], rest |-> v]
    ELSE LET last == v[Len(v)] IN
         IF ~Lit(last).ok
         THEN [ok |-> FALSE, msg |-> Lit(last).msg, rc |-> [tag |-> "", code |-> 0], rest |-> v]
         ELSE IF ~IsEq(last)
         THEN [ok |-> TRUE, msg |-> "", rc |-> [tag |-> "Target", code |-> 0], rest |-> v]
         ELSE LET dest == Lit(last).s
                  rest == SubSeq(v, 1, Len(v) - 1)
              IN IF dest = <<"=">>
                 THEN [ok |-> TRUE, msg |-> "", rc |-> [tag |-> "Keep", code |-> 0], rest |-> rest]
                 ELSE LET c == CodeParse(Slice(dest, 1, Len(dest))) IN
                      IF c.kind = "Redirect"
                      THEN [ok |-> TRUE, msg |-> "", rc |-> [tag |-> "Redirect", code |-> c.code], rest |-> rest]
                      ELSE IF c.kind = "Normal"
                      THEN [ok |-> TRUE, msg |-> "", rc |-> [tag |-> "Replace", code |-> c.code], rest |-> rest]
                      ELSE [ok |-> FALSE, msg |-> BadCode, rc |-> [tag |-> "", code |-> 0], rest |-> v]

\* The `for code in v { codes.push(..) }` loop: the codes, or the first error.
RECURSIVE CodesReversed(_, _)
CodesReversed(v, codes) ==
    IF v = <<>> THEN [ok |-> TRUE, msg |-> "", codes |-> codes]
    ELSE IF ~Lit(Head(v)).ok
    THEN [ok |-> FALSE, msg |-> Lit(Head(v)).msg, codes |-> <<>>]
    ELSE LET c == CodeParse(Lit(Head(v)).s) IN
         IF c.kind = "Err" THEN [ok |-> FALSE, msg |-> BadCode, codes |-> <<>>]
         ELSE CodesReversed(Tail(v), <<c.code>> \o codes)

RECURSIVE Codes(_, _)
Codes(v, codes) ==
    IF v = <<>> THEN [ok |-> TRUE, msg |-> "", codes |-> codes]
    ELSE IF ~Lit(Head(v)).ok
    THEN [ok |-> FALSE, msg |-> Lit(Head(v)).msg, codes |-> <<>>]
    ELSE LET c == CodeParse(Lit(Head(v)).s) IN
         IF c.kind = "Err" THEN [ok |-> FALSE, msg |-> BadCode, codes |-> <<>>]
         ELSE Codes(Tail(v), Append(codes, c.code))

\* The and_then closure of error_page, on the argument Values v.
ErrorPage(v) ==
    IF Len(v) = 0 THEN Err(EmptyDirective)
    ELSE LET p == PopUri(v)
             r == ResponseCode(p.rest)
         IN IF ~r.ok THEN Err(r.msg)
            ELSE LET c == Codes(r.rest, <<>>) IN
                 IF ~c.ok THEN Err(c.msg)
                 ELSE [kind |-> "Ok", msg |-> "",
                       data |-> [codes |-> c.codes,
                                 response_code |-> r.rc,
                                 uri |-> p.uri]]

\* many(parser(value)): each argument token goes through Value::parse; a
\* token that does not scan fails the directive.
ParseValues(ts) ==
    IF \E i \in 1..Len(ts) : ValueParse(ts[i]).kind = "Panic" THEN Panic
    ELSE IF \E i \in 1..Len(ts) : ValueParse(ts[i]).kind # "Ok"
    THEN Err(ValueParse(ts[CHOOSE i \in 1..Len(ts) :
                 /\ ValueParse(ts[i]).kind # "Ok"
                 /\ \A j \in 1..(i - 1) : ValueParse(ts[j]).kind = "Ok"]).msg)
    ELSE Ok([i \in 1..Len(ts) |-> ValueParse(ts[i]).data])

\* The error_page rule on the tokens between the keyword and the `;`.
ErrorPageRule(ts) ==
    LET vs == ParseValues(ts) IN
    IF vs.kind # "Ok" THEN vs ELSE ErrorPage(vs.data)

T404 == <<"4", "0", "4">>
T500 == <<"5", "0", "0">>
T302 == <<"3", "0", "2">>
TEq == <<"=">>
TEq200 == <<"=", "2", "0", "0">>
TEq301 == <<"=", "3", "0", "1">>
TUri == <<"/", "4", "0", "4", ".", "h", "t", "m", "l">>
TEqUri == <<"=">> \o TUri
TVar == <<"$", "u", "r", "i">>
TEqVar == <<"=", "$", "x">>
TEmpty == <<DQuote, DQuote>>
ErrTokens == {T404, T500, T302, TEq, TEq200, TEq301, TUri, TEqUri,
              TVar, TEqVar, TEmpty}

InitErrorPage ==
    /\ pc = "args"
    /\ args \in UNION {[1..n -> ErrTokens] : n \in 0..MaxArgs}
    /\ page = None
    /\ tok = <<>> /\ parsed = None /\ shown = <<>>
    /\ reparsed = None /\ reshown = <<>>
    /\ addrTok = <<>> /\ addr = None /\ items = <<>> /\ lst = None

\* The error_page rule runs on the directive's arguments.
ErrorPageStep ==
    /\ pc = "args"
    /\ page' = ErrorPageRule(args)
    /\ pc' = "page"
    /\ UNCHANGED <<tok, parsed, shown, reparsed, reshown,
                   args, addrTok, addr, items, lst>>

NextErrorPage == ErrorPageStep

SpecErrorPage == InitErrorPage /\ [][NextErrorPage]_vars

\* What the properties say about the arguments, stated without the rule.
ArgValue(i) == ValueParse(args[i]).data
IsMarker(val) ==
    Len(val) = 1 /\ val[1].t = "Literal" /\ Len(val[1].s) > 0 /\ val[1].s[1] = "="
MarkerText(val) == SubSeq(val[1].s, 2, Len(val[1].s))

\* C3 as stated: `error_page 404 =/404.html;` returns no ErrorPage item.
C3_EqUriFails ==
    (pc = "page" /\ args = <<T404, TEqUri>>) => page.kind # "Ok"

\* C3 as amended: `error_page 404 =/404.html;` parses: the last argument
\* `=/404.html` is the uri, the argument before it is no marker, so the
\* response code is Target and the codes are [404].
C3_EqUriIsTheUri ==
    (pc = "page" /\ args = <<T404, TEqUri>>)
    => /\ page.kind = "Ok"
       /\ page.data.uri = <<Literal(TEqUri)>>
       /\ page.data.response_code.tag = "Target"
       /\ page.data.codes = <<404>>

C3_Witness == pc = "page" /\ args = <<T404, TEqUri>> /\ page.kind = "Ok"

\* C5: for a non-empty argument list that parses: uri is the last
\* argument; a single literal starting with `=` before it is removed and
\* gives Keep (exactly `=`), Redirect(code) or Replace(code) by the class
\* of the text after `=`; otherwise the response code is Target; codes are
\* the classifier's codes of the remaining arguments, in order.
C5_ErrorPageShape ==
    (pc = "page" /\ page.kind = "Ok")
    => LET n == Len(args)
           marked == n >= 2 /\ IsMarker(ArgValue(n - 1))
           ncodes == IF marked THEN n - 2 ELSE n - 1
           rc == page.data.response_code
       IN /\ n >= 1
          /\ page.data.uri = ArgValue(n)
          /\ IF marked
             THEN LET text == MarkerText(ArgValue(n - 1)) IN
                  IF text = <<>> THEN rc.tag = "Keep"
                  ELSE IF CodeParse(text).kind = "Redirect"
                  THEN rc = [tag |-> "Redirect", code |-> CodeParse(text).code]
                  ELSE /\ CodeParse(text).kind = "Normal"
                       /\ rc = [tag |-> "Replace", code |-> CodeParse(text).code]
             ELSE rc.tag = "Target"
          /\ Len(page.data.codes) = ncodes
          /\ \A i \in 1..ncodes :
                 /\ Len(ArgValue(i)) = 1
                 /\ CodeParse(ArgValue(i)[1].s).kind # "Err"
                 /\ page.data.codes[i] = CodeParse(ArgValue(i)[1].s).code

C5_Witness ==
    /\ pc = "page"
    /\ page.kind = "Ok"
    /\ page.data.response_code.tag = "Redirect"
    /\ Len(page.data.codes) >= 1

\* ================================================================ listen
\* str::parse for the integer types of the options and of a port.
ParseUnsigned(s, limit) ==
    LET d == IF Len(s) > 1 /\ s[1] = "+" THEN Tail(s) ELSE s IN
    IF Small(d) /\ (limit = 0 \/ DecValue(d) < limit)
    THEN [ok |-> TRUE, n |-> DecValue(d)]
    ELSE [ok |-> FALSE, n |-> 0]

ParseSigned(s) ==
    IF Len(s) > 1 /\ s[1] = "-"
    THEN IF Small(Tail(s)) THEN [ok |-> TRUE, n |-> 0 - DecValue(Tail(s))]
         ELSE [ok |-> FALSE, n |-> 0]
    ELSE ParseUnsigned(s, 0)

PortLimit == 65536
OctetLimit == 256

\* str::parse::<SocketAddr> for the dotted IPv4 form `a.b.c.d:port`.
IndexOf(s, c) ==
    IF \E i \in 1..Len(s) : s[i] = c
    THEN Min({i \in 1..Len(s) : s[i] = c})
    ELSE 0

RECURSIVE IsOctets(_, _)
IsOctets(s, n) ==
    LET k == IndexOf(s, ".") IN
    IF n = 1 THEN k = 0 /\ Small(s) /\ DecValue(s) < OctetLimit
    ELSE /\ k > 0
         /\ Small(SubSeq(s, 1, k - 1))
         /\ DecValue(SubSeq(s, 1, k - 1)) < OctetLimit
         /\ IsOctets(SubSeq(s, k + 1, Len(s)), n - 1)

IsSocketAddr(s) ==
    LET k == IndexOf(s, ":") IN
    /\ k > 0
    /\ IsOctets(SubSeq(s, 1, k - 1), 4)
    /\ Small(SubSeq(s, k + 1, Len(s)))
    /\ DecValue(SubSeq(s, k + 1, Len(s))) < PortLimit

Address(tag, text, num) == [tag |-> tag, text |-> text, num |-> num]
UnixPrefix == <<"u", "n", "i", "x", ":">>
StarPrefix == <<"*", ":">>
BadAddress == "invalid address"

\* `&s.value[6..]`: the text from byte offset 6 on.  Slicing past the end
\* of the text panics.
UnixPath(value) ==
    IF 6 > Len(value) THEN PanicWith("byte index 6 is out of bounds")
    ELSE Ok(Address("Unix", Slice(value, 6, Len(value)), 0))

\* The and_then closure on the address token of listen.
ListenAddress(value) ==
    IF StartsWith(value, UnixPrefix) THEN UnixPath(value)
    ELSE IF StartsWith(value, StarPrefix)
    THEN LET p == ParseUnsigned(Slice(value, 2, Len(value)), PortLimit) IN
         IF p.ok THEN Ok(Address("StarPort", <<>>, p.n)) ELSE Err(BadAddress)
    ELSE LET p == ParseUnsigned(value, PortLimit) IN
         IF p.ok THEN Ok(Address("Port", <<>>, p.n))
         ELSE IF IsSocketAddr(value) THEN Ok(Address("Ip", value, 0))
         ELSE Err(BadAddress)

\* An option token: the keyword, or the `name=` prefix and the text after it.
Opt(key, val) == [key |-> key, val |-> val]
Part(tag, v) == [tag |-> tag, v |-> v]
OnlyOnOff == "only on/off supported"
BadNumber == "invalid digit found in string"
TOn == <<"o", "n">>
TOff == <<"o", "f", "f">>

\* The choice of option parsers: the ListenParts of a token, or the error.
ListenOption(t) ==
    LET good(p) == [ok |-> TRUE, msg |-> "", part |-> p]
        bad(m) == [ok |-> FALSE, msg |-> m, part |-> Part("", 0)]
        num(tag, r) == IF r.ok THEN good(Part(tag, r.n)) ELSE bad(BadNumber)
    IN CASE t.key = "default_server" -> good(Part("DefaultServer", TRUE))
         [] t.key = "ssl" -> good(Part("Ssl", TRUE))
         [] t.key = "http2" -> good(Part("Ext", "Http2"))
         [] t.key = "spdy" -> good(Part("Ext", "Spdy"))
         [] t.key = "proxy_protocol" -> good(Part("ProxyProtocol", TRUE))
         [] t.key = "setfib=" -> num("SetFib", ParseSigned(t.val))
         [] t.key = "fastopen=" -> num("FastOpen", ParseUnsigned(t.val, 0))
         [] t.key = "backlog=" -> num("Backlog", ParseSigned(t.val))
         [] t.key = "rcvbuf=" -> num("RcvBuf", ParseUnsigned(t.val, 0))
         [] t.key = "sndbuf=" -> num("SndBuf", ParseUnsigned(t.val, 0))
         [] t.key = "deferred" -> good(Part("Deferred", TRUE))
         [] t.key = "bind" -> good(Part("Bind", TRUE))
         [] t.key = "ipv6only=" ->
                IF t.val = TOn THEN good(Part("Ipv6Only", TRUE))
                ELSE IF t.val = TOff THEN good(Part("Ipv6Only", FALSE))
                ELSE bad(OnlyOnOff)
         [] t.key = "reuseport" -> good(Part("ReusePort", TRUE))

\* Listen::new(addr): no flag set, no option given.  Some(x) is <<x>>.
ListenNew(a) ==
    [address |-> a, default_server |-> FALSE, ssl |-> FALSE, ext |-> <<>>,
     proxy_protocol |-> FALSE, setfib |-> <<>>, fastopen |-> <<>>,
     backlog |-> <<>>, rcvbuf |-> <<>>, sndbuf |-> <<>>, deferred |-> FALSE,
     bind |-> FALSE, ipv6only |-> <<>>, reuseport |-> FALSE]

\* The field each ListenParts variant is folded into.
FieldOf(tag) ==
    CASE tag = "DefaultServer" -> "default_server"
      [] tag = "Ssl" -> "ssl"
      [] tag = "Ext" -> "ext"
      [] tag = "ProxyProtocol" -> "proxy_protocol"
      [] tag = "SetFib" -> "setfib"
      [] tag = "FastOpen" -> "fastopen"
      [] tag = "Backlog" -> "backlog"
      [] tag = "RcvBuf" -> "rcvbuf"
      [] tag = "SndBuf" -> "sndbuf"
      [] tag = "Deferred" -> "deferred"
      [] tag = "Bind" -> "bind"
      [] tag = "Ipv6Only" -> "ipv6only"
      [] tag = "ReusePort" -> "reuseport"

FlagTags == {"DefaultServer", "Ssl", "ProxyProtocol", "Deferred", "Bind", "ReusePort"}
ValuedTags == {"Ext", "SetFib", "FastOpen", "Backlog", "RcvBuf", "SndBuf", "Ipv6Only"}

\* One arm of the `match item` in the fold, keeping a value already set.
ApplyPartFirstWins(l, item) ==
    IF item.tag \in FlagTags
    THEN [l EXCEPT ![FieldOf(item.tag)] = TRUE]
    ELSE IF l[FieldOf(item.tag)] = <<>>
    THEN [l EXCEPT ![FieldOf(item.tag)] = <<item.v>>]
    ELSE l

\* One arm of the `match item` in the fold.
ApplyPart(l, item) ==
    CASE item.tag = "DefaultServer" -> [l EXCEPT !.default_server = TRUE]
      [] item.tag = "Ssl" -> [l EXCEPT !.ssl = TRUE]
      [] item.tag = "Ext" -> [l EXCEPT !.ext = <<item.v>>]
      [] item.tag = "ProxyProtocol" -> [l EXCEPT !.proxy_protocol = TRUE]
      [] item.tag = "SetFib" -> [l EXCEPT !.setfib = <<item.v>>]
      [] item.tag = "FastOpen" -> [l EXCEPT !.fastopen = <<item.v>>]
      [] item.tag = "Backlog" -> [l EXCEPT !.backlog = <<item.v>>]
      [] item.tag = "RcvBuf" -> [l EXCEPT !.rcvbuf = <<item.v>>]
      [] item.tag = "SndBuf" -> [l EXCEPT !.sndbuf = <<item.v>>]
      [] item.tag = "Deferred" -> [l EXCEPT !.deferred = TRUE]
      [] item.tag = "Bind" -> [l EXCEPT !.bind = TRUE]
      [] item.tag = "Ipv6Only" -> [l EXCEPT !.ipv6only = <<item.v>>]
      [] item.tag = "ReusePort" -> [l EXCEPT !.reuseport = TRUE]

\* The `for item in items` loop of the map closure.
RECURSIVE FoldParts(_, _)
FoldParts(l, its) ==
    IF its = <<>> THEN l ELSE FoldParts(ApplyPart(l, Head(its)), Tail(its))

ListenBuild(a, its) == FoldParts(ListenNew(a), its)

\* ---------------------------------------------------- listen's inputs
PathChars == {"/", "a"}
TSock == UnixPrefix \o <<"/", "v", "a", "r", "/", "r", "u", "n", "/",
                         "a", "p", "p", ".", "s", "o", "c", "k">>
AddrTokens ==
    {UnixPrefix \o p : p \in UNION {[1..n -> PathChars] : n \in 0..MaxPathLen}}
    \cup {TSock,
          <<"*", ":", "8", "0">>, <<"*", ":", "x">>, <<"8", "0">>, <<"x">>,
          <<"1", "2", "7", ".", "0", ".", "0", ".", "1", ":", "8", "0", "8", "0">>}
OptTokens ==
    {Opt(k, <<>>) : k \in {"default_server", "ssl", "http2", "spdy",
                           "proxy_protocol", "deferred", "bind", "reuseport"}}
    \cup {Opt("setfib=", <<"7">>), Opt("setfib=", <<"-", "1">>),
          Opt("fastopen=", <<"7">>), Opt("fastopen=", <<"-", "1">>),
          Opt("backlog=", <<"5", "1", "1">>),
          Opt("rcvbuf=", <<"7">>), Opt("sndbuf=", <<"7">>),
          Opt("sndbuf=", <<"x">>),
          Opt("ipv6only=", TOn), Opt("ipv6only=", TOff),
          Opt("ipv6only=", <<"m", "a", "y", "b", "e">>)}

InitListen ==
    /\ pc = "listen"
    /\ addrTok \in AddrTokens
    /\ addr = None /\ items = <<>> /\ lst = None
    /\ tok = <<>> /\ parsed = None /\ shown = <<>>
    /\ reparsed = None /\ reshown = <<>>
    /\ args = <<>> /\ page = None

\* The address token is parsed.
ListenAddr ==
    /\ pc = "listen"
    /\ addr' = ListenAddress(addrTok)
    /\ pc' = IF addr'.kind = "Ok" THEN "opts" ELSE "failed"
    /\ UNCHANGED <<tok, parsed, shown, reparsed, reshown,
                   args, page, addrTok, items, lst>>

\* many(choice(..)) takes one more option token.
ListenOpt(t) ==
    /\ pc = "opts"
    /\ Len(items) < MaxOpts
    /\ IF ListenOption(t).ok
       THEN items' = Append(items, ListenOption(t).part) /\ pc' = pc
       ELSE items' = items /\ pc' = "failed"
    /\ UNCHANGED <<tok, parsed, shown, reparsed, reshown,
                   args, page, addrTok, addr, lst>>

\* The map closure folds the options into the Listen record.
ListenFold ==
    /\ pc = "opts"
    /\ lst' = ListenBuild(addr.data, items)
    /\ pc' = "done"
    /\ UNCHANGED <<tok, parsed, shown, reparsed, reshown,
                   args, page, addrTok, addr, items>>

NextListen == ListenAddr \/ (\E t \in OptTokens : ListenOpt(t)) \/ ListenFold

SpecListen == InitListen /\ [][NextListen]_vars

\* C1: every address text that starts with `unix:` yields Address::Unix
\* with the text after that 5-character prefix as its path.
C1_UnixPathAfterPrefix ==
    (pc # "listen" /\ StartsWith(addrTok, UnixPrefix))
    => addr = Ok(Address("Unix", SubSeq(addrTok, 6, Len(addrTok)), 0))

\* C6: after the fold, a flag is true iff its keyword occurs among the
\* options; a valued field holds the value of the last occurrence of its
\* option, or nothing if there is none; and each option changes only its
\* own field.
Occurrences(tag) == {i \in 1..Len(items) : items[i].tag = tag}
Max(S) == CHOOSE x \in S : \A y \in S : x >= y
Fields == DOMAIN ListenNew(addr.data)
C6_ListenFold ==
    (pc = "done")
    => /\ \A tag \in FlagTags : lst[FieldOf(tag)] = (Occurrences(tag) # {})
       /\ \A tag \in ValuedTags :
              lst[FieldOf(tag)] =
                  IF Occurrences(tag) = {} THEN <<>>
                  ELSE <<items[Max(Occurrences(tag))].v>>
       /\ lst.address = addr.data
       /\ \A k \in 1..Len(items) :
              \A f \in Fields \ {FieldOf(items[k].tag)} :
                  ListenBuild(addr.data, SubSeq(items, 1, k))[f] =
                      ListenBuild(addr.data, SubSeq(items, 1, k - 1))[f]

C6_Witness ==
    /\ pc = "done"
    /\ Len(items) >= 2
    /\ items[1].tag = "Ipv6Only" /\ items[1].v = TRUE
    /\ items[2].tag = "Ipv6Only" /\ items[2].v = FALSE
    /\ lst.ipv6only = <<FALSE>>

\* ------------------------------------------------- the three rules together
Init == InitValue \/ InitErrorPage \/ InitListen
Next == NextValue \/ NextErrorPage \/ NextListen
Spec == Init /\ [][Next]_vars

====
